---- MODULE Spec2Model ----
(***************************************************************************)
(* Model of the weather dashboard's two browser-side utility modules:      *)
(*   src/storage-utils.js  StorageUtils  (localStorage facade)             *)
(*   src/chart-utils.js    ChartUtils    (registry of Chart.js handles)    *)
(*                                                                         *)
(* JavaScript values are tagged records (field t), raw localStorage        *)
(* contents are tagged records (field k).  Every public operation is one   *)
(* action; what it returned, what it wrote to the console and the store    *)
(* it started from are kept in the record last.                           *)
(***************************************************************************)
EXTENDS Naturals, Sequences, FiniteSets

VARIABLES
  localStorage,   \* the browser's store: key -> raw item
  substrate,      \* "ok" | "quota" (writes throw) | "denied" (every access throws)
  now,            \* the clock read by new Date()
  last,           \* the last StorageUtils call: op, arg, ret (the value returned, or
                  \* Throw(..) when it raised), console (lines written, in order),
                  \* pre (localStorage when called), substrate (when called)
  revisits,       \* calls of addToSearchHistory made with a city already listed
  chartInstances, \* ChartUtils.chartInstances: its keys in order, each with its handle
  charts,         \* the Chart objects constructed so far, by handle: the identifier
                  \* each was created under, its data, the destroy() calls it received
  dom,            \* identifiers for which document.getElementById finds a canvas
  lastChart       \* the last ChartUtils call: op, id, found (its canvas was there),
                  \* ret (a handle, 0 for null or nothing), console, events (engine
                  \* calls made, in order), pre (chartInstances when called)

storageVars == <<localStorage, substrate, now, last, revisits>>
chartVars   == <<chartInstances, charts, dom, lastChart>>
vars        == <<storageVars, chartVars>>

----------------------------------------------------------------------------
(* JavaScript values *)

Undefined == [t |-> "undefined"]
Null      == [t |-> "null"]
NaN       == [t |-> "NaN"]
True      == [t |-> "boolean", b |-> TRUE]
False     == [t |-> "boolean", b |-> FALSE]
Str(s)    == [t |-> "string", s |-> s]
Arr(a)    == [t |-> "array", a |-> a]
Throw(e)  == [t |-> "throw", e |-> e]

\* The elements of a JavaScript array of strings, as a sequence of TLA+ strings.
Strings(a) == [i \in 1..Len(a) |-> a[i].s]
StrArr(ss) == Arr([i \in 1..Len(ss) |-> Str(ss[i])])

IsArray(v)  == v.t = "array"
IsString(v) == v.t = "string"

----------------------------------------------------------------------------
(* Raw items of the store: what localStorage.getItem returns *)

NoItem     == [k |-> "null"]                 \* getItem of an absent key: null
Json(v)    == [k |-> "json", v |-> v]        \* the JSON text of v
RawText(s) == [k |-> "text", s |-> s]        \* a string that is not JSON text

\* `item ? ... : defaultValue`: null and the empty string are falsy.
Truthy(item) == item.k # "null" /\ ~(item.k = "text" /\ item.s = "")

\* JSON.stringify: undefined has no JSON text (the result is undefined), NaN is
\* written as null, also inside an array; strings, null, booleans, arrays and
\* plain objects are written as themselves.
RECURSIVE Normal(_)
Normal(v) ==
  CASE v.t = "NaN"       -> Null
    [] v.t = "undefined" -> Null
    [] v.t = "array"     -> Arr([i \in 1..Len(v.a) |-> Normal(v.a[i])])
    [] OTHER             -> v

JSON_stringify(v) == IF v.t = "undefined" THEN Undefined ELSE Json(Normal(v))

\* localStorage.setItem(key, value) stores String(value): undefined is stored as
\* the nine characters "undefined".
StoredForm(x) == IF x = Undefined THEN RawText("undefined") ELSE x

\* JSON.parse: the value of a JSON text; a SyntaxError for any other string.
JSON_parse(item) == IF item.k = "json" THEN item.v ELSE Throw("SyntaxError")

----------------------------------------------------------------------------
(* StorageUtils.KEYS *)

KEYS == [SEARCH_HISTORY |-> "weather_search_history",
         FAVORITES      |-> "weather_favorites",
         THEME          |-> "weather_theme",
         UNIT           |-> "weather_unit"]

\* Object.values(this.KEYS)
KeySet == {KEYS[name] : name \in DOMAIN KEYS}

\* The outcome of a call: the store afterwards, the value returned (or the
\* exception raised) and the console lines written.
Outcome(ls, r, log) == [ls |-> ls, ret |-> r, log |-> log]

\* getItem(key, defaultValue)
getItem(ls, sub, key, defaultValue) ==
  IF sub = "denied"
  THEN Outcome(ls, defaultValue, <<"error">>)
  ELSE LET item == ls[key] IN
       IF ~Truthy(item) THEN Outcome(ls, defaultValue, <<>>)
       ELSE LET v == JSON_parse(item) IN
            IF v.t = "throw" THEN Outcome(ls, defaultValue, <<"error">>)
            ELSE Outcome(ls, v, <<>>)

\* setItem(key, value)
setItem(ls, sub, key, value) ==
  IF sub # "ok"
  THEN Outcome(ls, False, <<"error">>)
  ELSE Outcome([ls EXCEPT ![key] = StoredForm(JSON_stringify(value))], True, <<>>)

----------------------------------------------------------------------------
(* Preferences *)

getTheme(ls, sub) == getItem(ls, sub, KEYS.THEME, Str("light"))

\* setTheme writing under the unit's key.
setTheme_unitKey(ls, sub, theme) ==
  LET w == setItem(ls, sub, KEYS.UNIT, theme) IN Outcome(w.ls, Undefined, w.log)

setTheme(ls, sub, theme) ==
  LET w == setItem(ls, sub, KEYS.THEME, theme) IN Outcome(w.ls, Undefined, w.log)

getUnit(ls, sub) == getItem(ls, sub, KEYS.UNIT, Str("celsius"))

setUnit(ls, sub, unit) ==
  LET w == setItem(ls, sub, KEYS.UNIT, unit) IN Outcome(w.ls, Undefined, w.log)

\* clearAll: localStorage.removeItem for each key, outside any try/catch.
clearAll(ls, sub) ==
  IF sub = "denied"
  THEN Outcome(ls, Throw("SecurityError"), <<>>)
  ELSE Outcome([key \in KeySet |-> NoItem], Undefined, <<>>)

----------------------------------------------------------------------------
(* String.prototype.toLowerCase over the city names used here: each name has *)
(* a capitalised, a lower-case and an upper-case spelling.                   *)

Capital == <<"Paris", "Rome", "Oslo", "Lima", "Cairo", "Tokyo", "Delhi",
             "Quito", "Accra", "Hanoi", "Dubai", "Seoul", "Minsk", "Kyiv",
             "Nowhere">>
Lower   == <<"paris", "rome", "oslo", "lima", "cairo", "tokyo", "delhi",
             "quito", "accra", "hanoi", "dubai", "seoul", "minsk", "kyiv",
             "nowhere">>
Upper   == <<"PARIS", "ROME", "OSLO", "LIMA", "CAIRO", "TOKYO", "DELHI",
             "QUITO", "ACCRA", "HANOI", "DUBAI", "SEOUL", "MINSK", "KYIV",
             "NOWHERE">>

\* The lower-case form of every spelling in the table.
LowerCaseOf ==
  [s \in {Capital[i] : i \in DOMAIN Capital} \cup {Upper[i] : i \in DOMAIN Upper}
            \cup {Lower[i] : i \in DOMAIN Lower} |->
     Lower[CHOOSE i \in DOMAIN Capital : s \in {Capital[i], Upper[i], Lower[i]}]]

Spellings == DOMAIN LowerCaseOf

\* s.toLowerCase(); a string outside the table has no upper-case letter.
toLowerCase(s) == IF s \in Spellings THEN LowerCaseOf[s] ELSE s

\* slice without its bound: the whole array.
slice_unbounded(seq, n) == seq

\* Array.prototype.slice(0, n)
slice(seq, n) == SubSeq(seq, 1, IF Len(seq) < n THEN Len(seq) ELSE n)

----------------------------------------------------------------------------
(* Search history *)

HistoryLimit == 10

getSearchHistory(ls, sub) == getItem(ls, sub, KEYS.SEARCH_HISTORY, Arr(<<>>))

\* filterHistory comparing the names as written, without toLowerCase.
filterHistory_caseSensitive(h, city) == SelectSeq(h, LAMBDA item : item # city)

\* history.filter(item => item.toLowerCase() !== city.toLowerCase())
filterHistory(h, city) ==
  SelectSeq(h, LAMBDA item : toLowerCase(item) # toLowerCase(city))

\* addToSearchHistory(city).  history.filter raises a TypeError when the value
\* read is not an array, item.toLowerCase when an element is not a string.
addToSearchHistory(ls, sub, city) ==
  LET g       == getSearchHistory(ls, sub)
      history == g.ret
  IN  IF ~IsArray(history) \/ \E i \in 1..Len(history.a) : ~IsString(history.a[i])
      THEN Outcome(ls, Throw("TypeError"), g.log)
      ELSE LET updatedHistory ==
                 slice(<<city>> \o filterHistory(Strings(history.a), city), HistoryLimit)
               w == setItem(ls, sub, KEYS.SEARCH_HISTORY, StrArr(updatedHistory))
           IN  Outcome(w.ls, StrArr(updatedHistory), g.log \o w.log)

\* clearSearchHistory()
clearSearchHistory(ls, sub) ==
  LET w == setItem(ls, sub, KEYS.SEARCH_HISTORY, Arr(<<>>)) IN Outcome(w.ls, Undefined, w.log)

----------------------------------------------------------------------------
(* Favorites *)

\* A location as the caller passes it, and the entry stored for it.
Location(name, country, lat, lon) ==
  [t |-> "object", name |-> name, country |-> country, lat |-> lat, lon |-> lon]

Favorite(location, addedAt) ==
  [t |-> "object", name |-> location.name, country |-> location.country,
   lat |-> location.lat, lon |-> location.lon, addedAt |-> addedAt]

\* The result objects of addToFavorites.
Added(favorites) == [t |-> "result", success |-> TRUE, favorites |-> favorites]
Rejected(message) == [t |-> "result", success |-> FALSE, message |-> message]

getFavorites(ls, sub) == getItem(ls, sub, KEYS.FAVORITES, Arr(<<>>))

\* fav.name.toLowerCase() is defined for an object entry with a string name.
IsFavoriteList(v) == IsArray(v) /\ \A i \in 1..Len(v.a) : v.a[i].t = "object"

\* favorites.some(fav => fav.name.toLowerCase() === name.toLowerCase())
someNamed(favs, name) ==
  \E i \in 1..Len(favs) : toLowerCase(favs[i].name) = toLowerCase(name)

\* filterFavorites comparing the names as written, without toLowerCase.
filterFavorites_caseSensitive(favs, locationName) ==
  SelectSeq(favs, LAMBDA fav : fav.name # locationName)

\* favorites.filter(fav => fav.name.toLowerCase() !== locationName.toLowerCase())
filterFavorites(favs, locationName) ==
  SelectSeq(favs, LAMBDA fav : toLowerCase(fav.name) # toLowerCase(locationName))

\* addToFavorites(location), called at time t.
addToFavorites(ls, sub, location, t) ==
  LET g         == getFavorites(ls, sub)
      favorites == g.ret
  IN  IF ~IsFavoriteList(favorites)
      THEN Outcome(ls, Throw("TypeError"), g.log)
      ELSE IF ~someNamed(favorites.a, location.name)
      THEN LET updatedFavorites == Append(favorites.a, Favorite(location, t))
               w == setItem(ls, sub, KEYS.FAVORITES, Arr(updatedFavorites))
           IN  Outcome(w.ls, Added(updatedFavorites), g.log \o w.log)
      ELSE Outcome(ls, Rejected("Location already in favorites"), g.log)

\* removeFromFavorites(locationName)
removeFromFavorites(ls, sub, locationName) ==
  LET g         == getFavorites(ls, sub)
      favorites == g.ret
  IN  IF ~IsFavoriteList(favorites)
      THEN Outcome(ls, Throw("TypeError"), g.log)
      ELSE LET updatedFavorites == filterFavorites(favorites.a, locationName)
               w == setItem(ls, sub, KEYS.FAVORITES, Arr(updatedFavorites))
           IN  Outcome(w.ls, Arr(updatedFavorites), g.log \o w.log)

\* isFavorite(locationName)
isFavorite(ls, sub, locationName) ==
  LET g         == getFavorites(ls, sub)
      favorites == g.ret
  IN  IF ~IsFavoriteList(favorites)
      THEN Outcome(ls, Throw("TypeError"), g.log)
      ELSE Outcome(ls, IF someNamed(favorites.a, locationName) THEN True ELSE False, g.log)

----------------------------------------------------------------------------
(* getStorageStats *)

\* Number of decimal digits of a natural number.
RECURSIVE Digits(_)
Digits(n) == IF n < 10 THEN 1 ELSE 1 + Digits(n \div 10)

\* Length of the JSON text of a value (the names used are ASCII without
\* characters that JSON escapes): what new Blob([item]).size gives for it.
\* A favorite is written as
\*   {"name":"..","country":"..","lat":N,"lon":N,"addedAt":"<24 characters>"}
RECURSIVE TextLength(_)
TextLength(v) ==
  CASE v.t = "string"  -> Len(v.s) + 2
    [] v.t = "null"    -> 4
    [] v.t = "boolean" -> IF v.b THEN 4 ELSE 5
    [] v.t = "object"  -> 51 + Len(v.name) + Len(v.country) + Digits(v.lat)
                             + Digits(v.lon) + 24
    [] v.t = "array"   ->
         LET RECURSIVE Sum(_)
             Sum(i) == IF i = 0 THEN 0 ELSE Sum(i - 1) + TextLength(v.a[i])
         IN  2 + Sum(Len(v.a)) + (IF Len(v.a) = 0 THEN 0 ELSE Len(v.a) - 1)

\* item ? new Blob([item]).size : 0
BlobSize(item) ==
  CASE item.k = "null" -> 0
    [] item.k = "text" -> Len(item.s)
    [] item.k = "json" -> TextLength(item.v)

\* (size / 1024).toFixed(2), as a number of hundredths of a KB.
toFixed2(size) == (size * 100 + 512) \div 1024

\* getStorageStats: localStorage.getItem for each key, outside any try/catch.
getStorageStats(ls, sub) ==
  IF sub = "denied"
  THEN Outcome(ls, Throw("SecurityError"), <<>>)
  ELSE LET size(name) == BlobSize(ls[KEYS[name]])
           totalSize  == size("SEARCH_HISTORY") + size("FAVORITES")
                         + size("THEME") + size("UNIT")
       IN  Outcome(ls,
                   [t |-> "object",
                    individual |-> [name \in DOMAIN KEYS |->
                                      [size |-> size(name), sizeKB |-> toFixed2(size(name))]],
                    total |-> totalSize,
                    totalKB |-> toFixed2(totalSize)],
                   <<>>)

----------------------------------------------------------------------------
(* The environment of StorageUtils *)

Substrates == {"ok", "quota", "denied"}

FreshStore == [key \in KeySet |-> NoItem]

\* No call made yet on store ls under substrate sub.
NoCall(ls, sub) == [op |-> "none", arg |-> Undefined, ret |-> Undefined,
                    console |-> <<>>, pre |-> ls, substrate |-> sub]

\* A call of operation name with argument a whose outcome is out.
Call(name, a, out) ==
  /\ localStorage' = out.ls
  /\ last' = [op |-> name, arg |-> a, ret |-> out.ret, console |-> out.log,
              pre |-> localStorage, substrate |-> substrate]

\* The store starts or stops accepting writes or accesses between two calls:
\* the quota is reached or freed, site data is blocked or allowed.
SubstrateChange ==
  /\ \E s \in Substrates \ {substrate} : substrate' = s
  /\ UNCHANGED <<localStorage, now, last, revisits>>
  /\ UNCHANGED chartVars

----------------------------------------------------------------------------
(* Preferences: the operations as actions *)

ThemeValues == {Str("dark"), Str("light"), Str(""), Null, NaN, Undefined}
UnitValues  == {Str("fahrenheit"), Str("celsius"), Undefined}

SetTheme ==
  /\ \E theme \in ThemeValues :
       Call("setTheme", theme, setTheme(localStorage, substrate, theme))
  /\ UNCHANGED <<substrate, now, revisits>>
  /\ UNCHANGED chartVars

GetTheme ==
  /\ Call("getTheme", Undefined, getTheme(localStorage, substrate))
  /\ UNCHANGED <<substrate, now, revisits>>
  /\ UNCHANGED chartVars

SetUnit ==
  /\ \E unit \in UnitValues :
       Call("setUnit", unit, setUnit(localStorage, substrate, unit))
  /\ UNCHANGED <<substrate, now, revisits>>
  /\ UNCHANGED chartVars

GetUnit ==
  /\ Call("getUnit", Undefined, getUnit(localStorage, substrate))
  /\ UNCHANGED <<substrate, now, revisits>>
  /\ UNCHANGED chartVars

ClearAll ==
  /\ Call("clearAll", Undefined, clearAll(localStorage, substrate))
  /\ UNCHANGED <<substrate, now, revisits>>
  /\ UNCHANGED chartVars

GetStorageStats ==
  /\ Call("getStorageStats", Undefined, getStorageStats(localStorage, substrate))
  /\ UNCHANGED <<substrate, now, revisits>>
  /\ UNCHANGED chartVars

----------------------------------------------------------------------------
(* Favorites: the operations as actions *)

MaxTime == 1

Locations == {Location("Paris", "FR", 48, 2), Location("paris", "FR", 48, 2),
              Location("Rome", "IT", 41, 12), Location("Oslo", "NO", 59, 10)}

LocationNames == {"Paris", "PARIS", "rome", "Oslo", "Nowhere"}

\* The clock is read once, by new Date(); time may have passed since the last call.
AddToFavorites ==
  /\ \E location \in Locations, t \in now..MaxTime :
       /\ now' = t
       /\ Call("addToFavorites", location,
               addToFavorites(localStorage, substrate, location, t))
  /\ UNCHANGED <<substrate, revisits>>
  /\ UNCHANGED chartVars

RemoveFromFavorites ==
  /\ \E locationName \in LocationNames :
       Call("removeFromFavorites", Str(locationName),
            removeFromFavorites(localStorage, substrate, locationName))
  /\ UNCHANGED <<substrate, now, revisits>>
  /\ UNCHANGED chartVars

IsFavorite ==
  /\ \E locationName \in LocationNames :
       Call("isFavorite", Str(locationName),
            isFavorite(localStorage, substrate, locationName))
  /\ UNCHANGED <<substrate, now, revisits>>
  /\ UNCHANGED chartVars

GetFavorites ==
  /\ Call("getFavorites", Undefined, getFavorites(localStorage, substrate))
  /\ UNCHANGED <<substrate, now, revisits>>
  /\ UNCHANGED chartVars

----------------------------------------------------------------------------
(* Search history: the operations as actions *)

\* The history the store holds, whether or not it can be read just now.
StoredHistory(ls) ==
  LET item == ls[KEYS.SEARCH_HISTORY] IN
  IF item.k = "json" /\ IsArray(item.v) /\ \A i \in 1..Len(item.v.a) : IsString(item.v.a[i])
  THEN Strings(item.v.a) ELSE <<>>

Listed(h, city) == \E i \in 1..Len(h) : toLowerCase(h[i]) = toLowerCase(city)

\* The caller searches one of NumCities cities.  The code treats all cities
\* alike, so a city that is not listed is taken in table order and spelled
\* capitalised; the newest and the oldest listed city may be searched again,
\* in lower case, up to MaxRevisits times in a run.
NumCities   == 11
MaxRevisits == 1

\* The first city of the table, if any, that is not among the lower-cased names.
FirstUnlisted(listed) ==
  {Capital[i] : i \in {j \in 1..NumCities :
                         /\ Lower[j] \notin listed
                         /\ \A k \in 1..(j - 1) : Lower[k] \in listed}}

LowerCased(h) == {toLowerCase(h[k]) : k \in 1..Len(h)}

\* The newest and the oldest city of a history, in lower case.
Revisitable(h) == IF h = <<>> THEN {} ELSE {toLowerCase(h[1]), toLowerCase(h[Len(h)])}

SearchCity ==
  /\ \/ \E city \in FirstUnlisted(LowerCased(StoredHistory(localStorage))) :
          /\ revisits' = revisits
          /\ Call("addToSearchHistory", Str(city),
                  addToSearchHistory(localStorage, substrate, city))
     \/ \E city \in Revisitable(StoredHistory(localStorage)) :
          /\ revisits < MaxRevisits
          /\ revisits' = revisits + 1
          /\ Call("addToSearchHistory", Str(city),
                  addToSearchHistory(localStorage, substrate, city))
  /\ UNCHANGED <<substrate, now>>
  /\ UNCHANGED chartVars

\* The caller passes any of a few spellings, whatever the store holds.
SearchedCities == {"Paris", "PARIS", "rome", "Oslo"}

AddToSearchHistory ==
  /\ \E city \in SearchedCities :
       Call("addToSearchHistory", Str(city),
            addToSearchHistory(localStorage, substrate, city))
  /\ UNCHANGED <<substrate, now, revisits>>
  /\ UNCHANGED chartVars

ClearSearchHistory ==
  /\ Call("clearSearchHistory", Undefined, clearSearchHistory(localStorage, substrate))
  /\ UNCHANGED <<substrate, now, revisits>>
  /\ UNCHANGED chartVars

GetSearchHistory ==
  /\ Call("getSearchHistory", Undefined, getSearchHistory(localStorage, substrate))
  /\ UNCHANGED <<substrate, now, revisits>>
  /\ UNCHANGED chartVars

----------------------------------------------------------------------------
(* ChartUtils *)

\* The identifiers callers use; "missing-id" never names a canvas.
Canvases == {"cv1", "cv2"}
Ids      == Canvases \cup {"missing-id"}

\* The registry object: its own keys in insertion order, each with the handle
\* stored under it.  A key that is assigned again keeps its place; a key that
\* is deleted and assigned again goes to the end.
NoCharts == <<>>

\* this.chartInstances[canvasId]: the handle, 0 (undefined) without an entry
At(reg, canvasId) ==
  IF \E i \in 1..Len(reg) : reg[i].key = canvasId
  THEN reg[CHOOSE i \in 1..Len(reg) : reg[i].key = canvasId].chart
  ELSE 0

\* this.chartInstances[canvasId] = h
Assign(reg, canvasId, h) ==
  IF \E i \in 1..Len(reg) : reg[i].key = canvasId
  THEN [i \in 1..Len(reg) |-> IF reg[i].key = canvasId
                               THEN [key |-> canvasId, chart |-> h] ELSE reg[i]]
  ELSE Append(reg, [key |-> canvasId, chart |-> h])

\* delete this.chartInstances[canvasId]
Delete(reg, canvasId) == SelectSeq(reg, LAMBDA e : e.key # canvasId)

\* Object.keys(this.chartInstances)
Keys(reg) == [i \in 1..Len(reg) |-> reg[i].key]

\* The outcome of a ChartUtils call: the registry and the Chart objects
\* afterwards, the value returned, the console lines and the engine calls.
ChartOutcome(reg, cs, r, log, ev) ==
  [reg |-> reg, charts |-> cs, ret |-> r, log |-> log, events |-> ev]

\* chart.destroy() on handle h
destroy(cs, h) == [cs EXCEPT ![h].destroys = @ + 1]

\* The part the three create functions share once the canvas is found:
\* destroy the chart registered under canvasId, if any, construct the new
\* Chart from the configuration and register it.
Replace(reg, cs, canvasId, config, forecastData, old, h) ==
  ChartOutcome(Assign(reg, canvasId, h),
               Append(IF old # 0 THEN destroy(cs, old) ELSE cs,
                      [id |-> canvasId, data |-> forecastData, destroys |-> 0]),
               h, <<>>,
               (IF old # 0 THEN << <<"destroy", old>> >> ELSE <<>>)
                 \o << <<"new", h, config>> >>)

\* createChart registering the new Chart without destroying the old one.
createChart_noDestroy(reg, cs, canvasId, config, forecastData) ==
  ChartOutcome(Assign(reg, canvasId, Len(cs) + 1),
               Append(cs, [id |-> canvasId, data |-> forecastData, destroys |-> 0]),
               Len(cs) + 1, <<>>, << <<"new", Len(cs) + 1, config>> >>)

createChart(reg, cs, canvasId, config, forecastData) ==
  Replace(reg, cs, canvasId, config, forecastData, At(reg, canvasId), Len(cs) + 1)

\* What the configuration object depends on: the chart type and the palette.
Config(type, isDarkMode) == [type |-> type, dark |-> isDarkMode]

createTemperatureChart(reg, cs, d, canvasId, forecastData, isDarkMode) ==
  IF canvasId \notin d
  THEN ChartOutcome(reg, cs, 0, <<"error">>, <<>>)
  ELSE createChart(reg, cs, canvasId, Config("line", isDarkMode), forecastData)

createHumidityChart(reg, cs, d, canvasId, forecastData, isDarkMode) ==
  IF canvasId \notin d
  THEN ChartOutcome(reg, cs, 0, <<>>, <<>>)
  ELSE createChart(reg, cs, canvasId, Config("bar", isDarkMode), forecastData)

createWindChart(reg, cs, d, canvasId, forecastData, isDarkMode) ==
  IF canvasId \notin d
  THEN ChartOutcome(reg, cs, 0, <<>>, <<>>)
  ELSE createChart(reg, cs, canvasId, Config("line", isDarkMode), forecastData)

\* updateChart(canvasId, newData)
updateChart(reg, cs, canvasId, newData) ==
  IF At(reg, canvasId) = 0
  THEN ChartOutcome(reg, cs, 0, <<"warn">>, <<>>)
  ELSE ChartOutcome(reg, [cs EXCEPT ![At(reg, canvasId)].data = newData], 0, <<>>,
                    << <<"update", At(reg, canvasId)>> >>)

\* destroyChart destroying the chart and keeping its registry entry.
destroyChart_keepEntry(reg, cs, canvasId) ==
  IF At(reg, canvasId) # 0
  THEN ChartOutcome(reg, destroy(cs, At(reg, canvasId)), 0, <<>>,
                    << <<"destroy", At(reg, canvasId)>> >>)
  ELSE ChartOutcome(reg, cs, 0, <<>>, <<>>)

\* destroyChart(canvasId)
destroyChart(reg, cs, canvasId) ==
  IF At(reg, canvasId) # 0
  THEN ChartOutcome(Delete(reg, canvasId), destroy(cs, At(reg, canvasId)), 0, <<>>,
                    << <<"destroy", At(reg, canvasId)>> >>)
  ELSE ChartOutcome(reg, cs, 0, <<>>, <<>>)

\* Object.keys(..).forEach(id => this.destroyChart(id)): the keys are listed
\* once, before the first destroyChart.
RECURSIVE forEachDestroy(_, _)
forEachDestroy(o, keys) ==
  IF keys = <<>> THEN o
  ELSE forEachDestroy(
         ChartOutcome(destroyChart(o.reg, o.charts, Head(keys)).reg,
                      destroyChart(o.reg, o.charts, Head(keys)).charts, 0, <<>>,
                      o.events \o destroyChart(o.reg, o.charts, Head(keys)).events),
         Tail(keys))

destroyAllCharts(reg, cs) ==
  forEachDestroy(ChartOutcome(reg, cs, 0, <<>>, <<>>), Keys(reg))

----------------------------------------------------------------------------
(* ChartUtils: the operations as actions *)

MaxCharts == 3

Forecasts == {"days", "days2"}

NoChartCall == [op |-> "none", id |-> "", found |-> FALSE, ret |-> 0, console |-> <<>>,
                events |-> <<>>, pre |-> NoCharts]

ChartCall(name, canvasId, out) ==
  /\ chartInstances' = out.reg
  /\ charts' = out.charts
  /\ lastChart' = [op |-> name, id |-> canvasId, found |-> canvasId \in dom,
                   ret |-> out.ret, console |-> out.log, events |-> out.events,
                   pre |-> chartInstances]

CreateTemperatureChart ==
  /\ Len(charts) < MaxCharts
  /\ \E canvasId \in Ids, forecastData \in Forecasts, isDarkMode \in BOOLEAN :
       ChartCall("createTemperatureChart", canvasId,
                 createTemperatureChart(chartInstances, charts, dom, canvasId,
                                        forecastData, isDarkMode))
  /\ UNCHANGED dom
  /\ UNCHANGED storageVars

CreateHumidityChart ==
  /\ Len(charts) < MaxCharts
  /\ \E canvasId \in Ids, forecastData \in Forecasts, isDarkMode \in BOOLEAN :
       ChartCall("createHumidityChart", canvasId,
                 createHumidityChart(chartInstances, charts, dom, canvasId,
                                     forecastData, isDarkMode))
  /\ UNCHANGED dom
  /\ UNCHANGED storageVars

CreateWindChart ==
  /\ Len(charts) < MaxCharts
  /\ \E canvasId \in Ids, forecastData \in Forecasts, isDarkMode \in BOOLEAN :
       ChartCall("createWindChart", canvasId,
                 createWindChart(chartInstances, charts, dom, canvasId,
                                 forecastData, isDarkMode))
  /\ UNCHANGED dom
  /\ UNCHANGED storageVars

UpdateChart ==
  /\ \E canvasId \in Ids, newData \in Forecasts :
       ChartCall("updateChart", canvasId,
                 updateChart(chartInstances, charts, canvasId, newData))
  /\ UNCHANGED dom
  /\ UNCHANGED storageVars

DestroyChart ==
  /\ \E canvasId \in Ids :
       ChartCall("destroyChart", canvasId, destroyChart(chartInstances, charts, canvasId))
  /\ UNCHANGED dom
  /\ UNCHANGED storageVars

DestroyAllCharts ==
  /\ ChartCall("destroyAllCharts", "", destroyAllCharts(chartInstances, charts))
  /\ UNCHANGED dom
  /\ UNCHANGED storageVars

\* The page takes a canvas out of the document or puts it back.
CanvasChange ==
  /\ \E canvasId \in Canvases :
       dom' = IF canvasId \in dom THEN dom \ {canvasId} ELSE dom \cup {canvasId}
  /\ UNCHANGED <<chartInstances, charts, lastChart>>
  /\ UNCHANGED storageVars

ChartInit ==
  /\ chartInstances = NoCharts
  /\ charts = <<>>
  /\ dom = Canvases
  /\ lastChart = NoChartCall

StorageInit ==
  /\ localStorage = FreshStore
  /\ substrate \in Substrates
  /\ now = 0
  /\ last = NoCall(localStorage, substrate)
  /\ revisits = 0

----------------------------------------------------------------------------
(* Preferences on a fresh store *)

InitPrefs == StorageInit /\ ChartInit

NextPrefs ==
  \/ SetTheme
  \/ GetTheme
  \/ SetUnit
  \/ GetUnit
  \/ ClearAll
  \/ SubstrateChange

SpecPrefs == InitPrefs /\ [][NextPrefs]_vars

----------------------------------------------------------------------------
(* Favorites on a fresh store *)

InitFavorites == StorageInit /\ ChartInit

NextFavorites ==
  \/ AddToFavorites
  \/ RemoveFromFavorites
  \/ IsFavorite
  \/ GetFavorites
  \/ SubstrateChange

SpecFavorites == InitFavorites /\ [][NextFavorites]_vars

----------------------------------------------------------------------------
(* Properties of the preferences *)

\* The value a key holds for a reader when it is absent.
Absent(ls, key) == ls[key] = NoItem

\* C6 as stated: for every value v, setTheme(v) directly followed by getTheme()
\* returns v, and setUnit(v) directly followed by getUnit() returns v; with the
\* key absent getTheme() returns "light" and getUnit() returns "celsius".
C6_RoundTripEveryValue ==
  /\ [][ /\ (last.op = "setTheme" /\ last'.op = "getTheme") => last'.ret = last.arg
         /\ (last.op = "setUnit" /\ last'.op = "getUnit") => last'.ret = last.arg ]_vars
  /\ [](/\ (last.op = "getTheme" /\ Absent(last.pre, KEYS.THEME)) => last.ret = Str("light")
        /\ (last.op = "getUnit" /\ Absent(last.pre, KEYS.UNIT)) => last.ret = Str("celsius"))

\* A value whose JSON text denotes the value itself: not undefined, not NaN.
JsonExact(v) == JSON_stringify(v) = Json(v)

\* C6 amended: the round trip holds for every value that JSON represents exactly,
\* when the store accepts the write and does not refuse the read; the defaults
\* hold whenever the key is absent.
C6_RoundTripJsonValues ==
  /\ [][ /\ ( /\ last.op = "setTheme" /\ last'.op = "getTheme"
              /\ JsonExact(last.arg)
              /\ last.substrate = "ok" /\ last'.substrate # "denied" )
            => last'.ret = last.arg
         /\ ( /\ last.op = "setUnit" /\ last'.op = "getUnit"
              /\ JsonExact(last.arg)
              /\ last.substrate = "ok" /\ last'.substrate # "denied" )
            => last'.ret = last.arg ]_vars
  /\ [](/\ (last.op = "getTheme" /\ Absent(last.pre, KEYS.THEME)) => last.ret = Str("light")
        /\ (last.op = "getUnit" /\ Absent(last.pre, KEYS.UNIT)) => last.ret = Str("celsius"))

\* getTheme() reads back the "dark" that setTheme wrote over "light".
C6_Witness ==
  /\ last.op = "getTheme"
  /\ last.substrate = "ok"
  /\ last.pre[KEYS.THEME] = Json(Str("dark"))
  /\ last.ret = Str("dark")

----------------------------------------------------------------------------
(* Properties of the favorites *)

\* The favorites the store holds, whether or not it can be read just now.
StoredFavorites(ls) ==
  LET item == ls[KEYS.FAVORITES] IN
  IF item.k = "json" /\ IsArray(item.v) THEN item.v.a ELSE <<>>

SameName(a, b) == toLowerCase(a) = toLowerCase(b)

Matches(favs, name) == {i \in 1..Len(favs) : SameName(favs[i].name, name)}

\* favs without the entries at the positions in drop, order kept.
RECURSIVE Without(_, _)
Without(favs, drop) ==
  IF favs = <<>> THEN <<>>
  ELSE LET rest == Without(SubSeq(favs, 1, Len(favs) - 1), drop)
       IN  IF Len(favs) \in drop THEN rest ELSE Append(rest, favs[Len(favs)])

UniqueNames(favs) ==
  \A i, j \in 1..Len(favs) : SameName(favs[i].name, favs[j].name) => i = j

\* C3: addToFavorites of a location whose name a stored favorite already has,
\* ignoring case, returns success = false with a message and leaves the stored
\* favorites as they were; so no two stored favorites share a name ignoring case.
C3_DuplicateRejected ==
  /\ ( /\ last.op = "addToFavorites"
       /\ Matches(StoredFavorites(last.pre), last.arg.name) # {} )
     => /\ last.ret.t = "result"
        /\ last.ret.success = FALSE
        /\ "message" \in DOMAIN last.ret
        /\ localStorage = last.pre
  /\ UniqueNames(StoredFavorites(localStorage))

\* C10: addToFavorites of a location whose name no stored favorite has appends
\* one entry for it, keeps the others in place and returns success = true with
\* that collection; after every call that returned success = true, reading the
\* favorites gives the collection the result carries.
C10_SuccessMeansStored ==
  /\ ( /\ last.op = "addToFavorites"
       /\ Matches(StoredFavorites(last.pre), last.arg.name) = {} )
     => /\ last.ret.t = "result"
        /\ last.ret.success = TRUE
        /\ Len(last.ret.favorites) = Len(StoredFavorites(last.pre)) + 1
        /\ SubSeq(last.ret.favorites, 1, Len(StoredFavorites(last.pre)))
             = StoredFavorites(last.pre)
        /\ LET e == last.ret.favorites[Len(last.ret.favorites)]
           IN  /\ e.name = last.arg.name /\ e.country = last.arg.country
               /\ e.lat = last.arg.lat /\ e.lon = last.arg.lon
  /\ ( /\ last.op = "addToFavorites"
       /\ last.ret.t = "result"
       /\ last.ret.success = TRUE )
     => getFavorites(localStorage, last.substrate).ret = Arr(last.ret.favorites)

\* What C4 says of one call, when Ok(call) holds of it.
C4_OneCall(Ok(_)) ==
  (last.op = "removeFromFavorites" /\ Ok(last)) =>
    LET before == StoredFavorites(last.pre)
        hit    == Matches(before, last.arg.s)
    IN  /\ StoredFavorites(localStorage) = Without(before, hit)
        /\ hit = {} => /\ StoredFavorites(localStorage) = before
                       /\ last.ret = Arr(before)
                       /\ last.console = <<>>

\* What C4 says of two calls in a row with the same name.
C4_TwoCalls(Ok(_)) ==
  ( /\ last.op = "removeFromFavorites" /\ last'.op = "removeFromFavorites"
    /\ last'.arg = last.arg
    /\ Ok(last) /\ Ok(last') )
  => /\ last'.ret = last.ret
     /\ localStorage' = localStorage

AnyCall(c)   == TRUE
Accepted(c)  == c.substrate = "ok"

\* C4 as stated: removeFromFavorites(name) removes exactly the stored favorites
\* named name ignoring case, keeping the order of the rest; with no match it
\* returns the unchanged collection, changes nothing and reports no error; a
\* second call in a row with the same name changes nothing and returns the same.
C4_RemoveAsStated == [] C4_OneCall(AnyCall) /\ [][C4_TwoCalls(AnyCall)]_vars

\* C4 amended: the same, for calls made while the store accepts reads and writes.
C4_RemoveWhenAccepted == [] C4_OneCall(Accepted) /\ [][C4_TwoCalls(Accepted)]_vars

\* removeFromFavorites took the middle one of three favorites out, named in
\* another spelling than the one stored.
C4_Witness ==
  /\ last.op = "removeFromFavorites"
  /\ last.substrate = "ok"
  /\ Len(StoredFavorites(last.pre)) = 3
  /\ Matches(StoredFavorites(last.pre), last.arg.s) = {2}
  /\ StoredFavorites(last.pre)[2].name # last.arg.s
  /\ Len(StoredFavorites(localStorage)) = 2

----------------------------------------------------------------------------
(* Search history on a fresh store *)

InitHistory == StorageInit /\ ChartInit

NextHistory ==
  \/ SearchCity
  \/ ClearSearchHistory
  \/ GetSearchHistory
  \/ SubstrateChange

SpecHistory == InitHistory /\ [][NextHistory]_vars

----------------------------------------------------------------------------
(* A store that earlier sessions, other tabs or other scripts of the page   *)
(* have written: the history key holds any array of strings (duplicates     *)
(* and more than HistoryLimit entries included), something else, or nothing *)

MaxStored == 3

StoredSpellings == {"Paris", "paris", "Rome"}

RECURSIVE SeqsUpTo(_, _)
SeqsUpTo(S, n) ==
  IF n = 0 THEN {<<>>}
  ELSE LET shorter == SeqsUpTo(S, n - 1)
       IN  shorter \cup {Append(q, x) : q \in {r \in shorter : Len(r) = n - 1}, x \in S}

StoredHistoryItems ==
  {Json(StrArr(h)) : h \in SeqsUpTo(StoredSpellings, MaxStored)}
  \cup {Json(StrArr(SubSeq(Capital, 1, n))) : n \in {HistoryLimit, HistoryLimit + 1}}
  \cup {NoItem, RawText(""), RawText("{oops"), Json(Null), Json(Str("Paris")),
        Json(Arr(<<Str("Paris"), Null>>))}

StoredFavoritesItems == {NoItem, Json(Null), Json(Arr(<<Null>>))}

InitStored ==
  /\ \E h \in StoredHistoryItems, f \in StoredFavoritesItems :
       localStorage = [FreshStore EXCEPT ![KEYS.SEARCH_HISTORY] = h,
                                         ![KEYS.FAVORITES] = f]
  /\ substrate \in Substrates
  /\ now = 0
  /\ last = NoCall(localStorage, substrate)
  /\ revisits = 0
  /\ ChartInit

NextStored ==
  \/ AddToSearchHistory
  \/ ClearSearchHistory
  \/ GetSearchHistory
  \/ IsFavorite
  \/ ClearAll
  \/ GetStorageStats
  \/ SubstrateChange

SpecStored == InitStored /\ [][NextStored]_vars

----------------------------------------------------------------------------
(* Properties of the search history *)

\* The item is a stored history: an array of strings, or no item at all.
HoldsHistory(item) ==
  \/ item = NoItem
  \/ /\ item.k = "json" /\ IsArray(item.v)
     /\ \A i \in 1..Len(item.v.a) : IsString(item.v.a[i])

CityAt(h, city) == {i \in 1..Len(h) : SameName(h[i], city)}

IsPrefix(p, q) == Len(p) <= Len(q) /\ p = SubSeq(q, 1, Len(p))

\* The history after adding city to the history before, as C1 describes it.
CityFirst(before, after, city) ==
  /\ Cardinality(CityAt(after, city)) = 1
  /\ after[1] = city
  /\ IsPrefix(Tail(after), Without(before, CityAt(before, city)))
  /\ Len(after) < HistoryLimit => Tail(after) = Without(before, CityAt(before, city))

\* C1: whatever history is stored, after addToSearchHistory(c) with a successful
\* write the stored history has exactly one entry equal to c ignoring case, at
\* position 0 and spelled as passed, and the other previous entries follow it in
\* their previous order.
C1_CityFirstOnce ==
  ( /\ last.op = "addToSearchHistory"
    /\ last.substrate = "ok"
    /\ HoldsHistory(last.pre[KEYS.SEARCH_HISTORY]) )
  => /\ HoldsHistory(localStorage[KEYS.SEARCH_HISTORY])
     /\ CityFirst(StoredHistory(last.pre), StoredHistory(localStorage), last.arg.s)

\* "PARIS" was added to a history that listed the city twice, in two other
\* spellings, around another city.
C1_Witness ==
  /\ last.op = "addToSearchHistory"
  /\ last.substrate = "ok"
  /\ last.arg = Str("PARIS")
  /\ StoredHistory(last.pre) = <<"paris", "Rome", "Paris">>
  /\ StoredHistory(localStorage) = <<"PARIS", "Rome">>

\* C2: from an empty store, the stored history never has more than 10 entries
\* after addToSearchHistory and clearSearchHistory calls; adding a city that is
\* not listed to a history of 10 removes its last entry and keeps the other nine
\* (and a refused write removes nothing).
C2_AtMostTenOldestEvicted ==
  /\ Len(StoredHistory(localStorage)) <= HistoryLimit
  /\ ( /\ last.op = "addToSearchHistory"
       /\ Len(StoredHistory(last.pre)) = HistoryLimit
       /\ ~Listed(StoredHistory(last.pre), last.arg.s) )
     => StoredHistory(localStorage) =
          IF last.substrate = "ok"
          THEN <<last.arg.s>> \o SubSeq(StoredHistory(last.pre), 1, HistoryLimit - 1)
          ELSE StoredHistory(last.pre)

\* An eleventh city was added to a full history and its oldest entry is gone.
C2_Witness ==
  /\ last.op = "addToSearchHistory"
  /\ last.substrate = "ok"
  /\ Len(StoredHistory(last.pre)) = HistoryLimit
  /\ ~Listed(StoredHistory(last.pre), last.arg.s)
  /\ Len(StoredHistory(localStorage)) = HistoryLimit
  /\ StoredHistory(localStorage)[1] = last.arg.s
  /\ ~Listed(StoredHistory(localStorage), StoredHistory(last.pre)[HistoryLimit])

\* C5: no operation of StorageUtils raises to its caller, whatever the store
\* holds and whether or not the substrate throws.
C5_NoOperationRaises == last.ret.t # "throw"

----------------------------------------------------------------------------
(* The chart registry *)

InitCharts == StorageInit /\ substrate = "ok" /\ ChartInit

NextCharts ==
  \/ CreateTemperatureChart
  \/ CreateHumidityChart
  \/ CreateWindChart
  \/ UpdateChart
  \/ DestroyChart
  \/ DestroyAllCharts
  \/ CanvasChange

SpecCharts == InitCharts /\ [][NextCharts]_vars

----------------------------------------------------------------------------
(* Properties of the chart registry *)

IsCreate(name) ==
  name \in {"createTemperatureChart", "createHumidityChart", "createWindChart"}

\* The handles created under id that have not been destroyed.
LiveUnder(id) == {h \in 1..Len(charts) : charts[h].id = id /\ charts[h].destroys = 0}

\* The last call was a create that found its canvas and a handle registered.
Replaced ==
  /\ IsCreate(lastChart.op)
  /\ lastChart.found
  /\ At(lastChart.pre, lastChart.id) # 0

\* C7: for every identifier at most one handle created under it is live; a
\* create call that replaces a registered handle calls the old handle's
\* destroy() before it constructs the new one, and the entry is then the new one.
C7_OneLiveHandle ==
  /\ \A id \in Ids : Cardinality(LiveUnder(id)) <= 1
  /\ Replaced =>
       /\ Len(lastChart.events) = 2
       /\ lastChart.events[1][1] = "destroy"
       /\ lastChart.events[1][2] = At(lastChart.pre, lastChart.id)
       /\ lastChart.events[2][1] = "new"
       /\ lastChart.events[2][2] = lastChart.ret
       /\ lastChart.ret # At(lastChart.pre, lastChart.id)
       /\ At(chartInstances, lastChart.id) = lastChart.ret
       /\ charts[lastChart.ret].destroys = 0

\* A create call replaced a handle: two charts were made under the
\* identifier and one of them is live.
C7_Witness ==
  /\ Replaced
  /\ Cardinality({h \in 1..Len(charts) : charts[h].id = lastChart.id}) = 2
  /\ Cardinality(LiveUnder(lastChart.id)) = 1

\* C8: a create call of any of the three kinds whose identifier names no
\* canvas writes an error to the console, returns no handle, constructs no
\* chart and leaves the registry as it was.
C8_MissingCanvasReported ==
  (IsCreate(lastChart.op) /\ ~lastChart.found) =>
    /\ \E i \in 1..Len(lastChart.console) : lastChart.console[i] = "error"
    /\ lastChart.ret = 0
    /\ lastChart.events = <<>>
    /\ chartInstances = lastChart.pre

\* What C9 says of the state after a call.
C9_AfterCall ==
  /\ (lastChart.op = "updateChart" /\ At(lastChart.pre, lastChart.id) = 0) =>
       /\ chartInstances = lastChart.pre
       /\ lastChart.events = <<>>
       /\ lastChart.console = <<"warn">>
  /\ (lastChart.op = "destroyChart" /\ At(lastChart.pre, lastChart.id) = 0) =>
       /\ chartInstances = lastChart.pre
       /\ lastChart.events = <<>>
  /\ (lastChart.op = "updateChart" /\ At(lastChart.pre, lastChart.id) # 0) =>
       /\ chartInstances = lastChart.pre
       /\ charts[At(chartInstances, lastChart.id)].destroys = 0
  /\ lastChart.op = "destroyAllCharts" =>
       /\ chartInstances = NoCharts
       /\ \A h \in 1..Len(charts) : charts[h].destroys = 1

\* What C9 says of a step: how the slot of each identifier may move, and that
\* only a create call constructs a chart.
C9_Step ==
  /\ \A id \in Ids :
       At(chartInstances, id) # At(chartInstances', id) =>
         \/ /\ At(chartInstances', id) # 0
            /\ IsCreate(lastChart'.op) /\ lastChart'.id = id
         \/ /\ At(chartInstances, id) # 0 /\ At(chartInstances', id) = 0
            /\ \/ lastChart'.op = "destroyChart" /\ lastChart'.id = id
               \/ lastChart'.op = "destroyAllCharts"
  /\ Len(charts') # Len(charts) => IsCreate(lastChart'.op)

====
